---------------------------- MODULE Spec2Model ----------------------------
(***************************************************************************)
(* Model of djangorestframework/resources.py: the form-based request       *)
(* validation of FormResource / ModelResource (_validate and its single    *)
(* sentinel retry), the form-class resolution (get_form_class,             *)
(* get_bound_form) and the two field-set properties of ModelResource.      *)
(*                                                                         *)
(* Python values are encoded as follows.  An optional dict is a record     *)
(* [none, items]: none = TRUE is Python's None, otherwise items is the     *)
(* mapping.  An attribute slot holding a form class is a string: "absent"  *)
(* (the attribute does not exist), "None" (it exists and is None) or the   *)
(* name of the form class.  An optional tuple of names is a record         *)
(* [none, val].  The bound form (a Django Form, outside this repository)   *)
(* is an opaque capability: each bind draws what is_valid(), errors and    *)
(* cleaned_data report.                                                    *)
(* `files` only reaches the form constructor and is covered by that draw.   *)
(* A resource built with view=None reads like a view with no attribute:    *)
(* every view slot "absent" and view_has_request = FALSE.                  *)
(***************************************************************************)
EXTENDS Naturals, FiniteSets, Sequences, TLC

VARIABLES
    \* ---- configuration of the resource and of the view -------------------
    kind,                  \* "FormResource" | "ModelResource"
    allow_unknown_form_fields,
    view_form,             \* view.form slot
    resource_form,         \* self.form slot (class attribute, always exists)
    view_method_form,      \* [method name -> slot] view.<method>_form
    resource_method_form,  \* [method name -> slot] self.<method>_form
    method_arg,            \* the `method` argument of get_form_class
    view_has_request,      \* hasattr(self.view, 'request')
    view_method,           \* view.method slot ("absent" or a method)
    request_method,        \* view.request.method
    model,                 \* self.model: "None" or "Model"
    model_meta_fields,     \* names of self.model._meta.fields
    model_property_attrs,  \* attributes of self.model that are properties
    fields,                \* self.fields  [none, val]
    include,               \* self.include (set of names)
    exclude,               \* self.exclude (set of names)
    \* ---- one validate_request call ---------------------------------------
    pc,                    \* "idle" | "validate" | "returned" | "raised"
    data0,                 \* the caller's mapping as it was at the call
    caller_data,           \* the caller's mapping object, as it is now
    data,                  \* the `data` local of the current _validate frame
    aliased,               \* the `data` local is the caller's object
    allowed_extra_fields,  \* the parameter of the current _validate frame
    allowed0,              \* allowed_extra_fields as validate_request passed it
    fake_data,             \* the parameter of the current frame: "None" | key
    log,                   \* one record per bind attempt made so far
    bound_form_instance,   \* view.bound_form_instance: [set, form, attempt]
    outcome,               \* what the call returned or raised
    \* ---- form-class resolution and field-set resolution -------------------
    form_result,           \* [done, form, bound]: get_form_class, get_bound_form
    fs_done,               \* which field-set properties have been read
    fs_model,              \* value of _model_fields_set
    fs_property            \* value of _property_fields_set

vars == << kind, allow_unknown_form_fields, view_form, resource_form,
           view_method_form, resource_method_form, method_arg,
           view_has_request, view_method, request_method, model,
           model_meta_fields, model_property_attrs, fields,
           include, exclude, pc, data0, caller_data, data, aliased,
           allowed_extra_fields, allowed0, fake_data, log,
           bound_form_instance, outcome, form_result, fs_done, fs_model,
           fs_property >>

configVars == << kind, allow_unknown_form_fields, view_form, resource_form,
                 view_method_form, resource_method_form, method_arg,
                 view_has_request, view_method, request_method, model,
                 model_meta_fields, model_property_attrs, fields, include,
                 exclude >>

callVars == << pc, data0, caller_data, data, aliased, allowed_extra_fields,
               allowed0, fake_data, log, bound_form_instance, outcome >>

resolveVars == << form_result, fs_done, fs_model, fs_property >>

-----------------------------------------------------------------------------
(* Bounds of the model.                                                     *)

\* Largest number of keys in the mapping a caller passes.
MaxDataKeys == 2

\* Cap on the bind attempts of one call the model will follow.
MaxAttempts == 3

-----------------------------------------------------------------------------
(* Python values.                                                           *)

NoneDict == [none |-> TRUE, items |-> << >>]

Dict(f) == [none |-> FALSE, items |-> f]

Keys(d) == IF d.none THEN {} ELSE DOMAIN d.items

\* Truth value of an optional dict: None and {} are falsy.
Truthy(d) == ~d.none /\ DOMAIN d.items # {}

\* d[k] = v on a mapping.
Put(f, k, v) == [x \in (DOMAIN f) \cup {k} |-> IF x = k THEN v ELSE f[x]]

NoneTuple == [none |-> TRUE, val |-> {}]

Tuple(s) == [none |-> FALSE, val |-> s]

\* Truth value of an optional tuple: None and () are falsy.
TupleTruthy(t) == ~t.none /\ t.val # {}

\* Truth value of a form slot value.
FormTruthy(f) == f \notin {"absent", "None"}

\* str.lower() on the method names in use.
Lower(m) == CASE m = "POST" -> "post" [] m = "PUT" -> "put" [] OTHER -> m

-----------------------------------------------------------------------------
(* FormResource.get_form_class / get_bound_form.                            *)

\* getattr(obj, name, default): the slot's value when the attribute exists.
GetAttr(slot, default) == IF slot = "absent" THEN default ELSE slot

\* Line 186: a form on the view overrides a form on the resource.
GeneralForm == IF FormTruthy(view_form) THEN view_form ELSE resource_form

\* Lines 189-192: use the requested method or determine the request method.
RequestMethod(method) ==
    IF method = "None" /\ view_has_request /\ view_method # "absent"
    THEN view_method
    ELSE IF method = "None" /\ view_has_request
         THEN request_method
         ELSE method

\* Lines 196-198: the method form of the resource, then that of the view,
\* each read with getattr(..., form).
MethodForm(method, form) ==
    GetAttr(view_method_form[Lower(method)],
            GetAttr(resource_method_form[Lower(method)], form))

get_form_class(method) ==
    LET m == RequestMethod(method)
    IN  IF m # "None" THEN MethodForm(m, GeneralForm) ELSE GeneralForm

\* The class of the form get_bound_form binds, "None" when it returns None.
\* ModelResource falls back to a ModelForm made from self.model.
get_bound_form(method) ==
    LET form == get_form_class(method)
    IN  IF kind = "ModelResource" /\ ~FormTruthy(form) /\ model # "None"
        THEN "OnTheFlyModelForm"
        ELSE IF FormTruthy(form) THEN form ELSE "None"

\* bound_form.fields.keys() of each form class of the model.
FormFieldNames(form) ==
    CASE form = "ViewForm" -> {"name", "extra"}
      [] form = "None" -> {}
      [] OTHER -> {"name"}

-----------------------------------------------------------------------------
(* ModelResource._model_fields_set / _property_fields_set.                  *)

\* attr.startswith('_')
StartsWithUnderscore(k) ==
    k \in {"_p", "_fake_data", "_method", "_accept", "__all__", "__x"}

\* key.startswith('__')
StartsWithDunder(k) == k \in {"__all__", "__x"}

\* Lines 337-339: the public property attributes of the model.
PropertyFields == {a \in model_property_attrs : ~StartsWithUnderscore(a)}

\* _model_fields_set written like _property_fields_set (line 344).
_model_fields_set_with_include ==
    IF TupleTruthy(fields)
    THEN model_meta_fields \cap fields.val
    ELSE (model_meta_fields \cup include) \ exclude

_model_fields_set ==
    IF TupleTruthy(fields)
    THEN model_meta_fields \cap fields.val
    ELSE model_meta_fields \ exclude

_property_fields_set ==
    IF TupleTruthy(fields)
    THEN PropertyFields \cap fields.val
    ELSE (PropertyFields \cup include) \ exclude

-----------------------------------------------------------------------------
(* The bound form, as far as _validate reads it.                            *)

\* Keys bound_form.errors can hold: a field of the form, and Django's
\* '__all__' entry, which holds what non_field_errors() returns.
ErrorKeys == {"name", "__all__"}

\* What one bind can report: is_valid() with cleaned_data over some of the
\* form's fields and empty errors, or not is_valid() with any errors, the
\* empty errors included (line 109).
Reports(form) ==
    {[valid |-> TRUE, errors |-> {}, cleaned |-> c] :
        c \in SUBSET FormFieldNames(form)}
    \cup
    {[valid |-> FALSE, errors |-> e, cleaned |-> {}] : e \in SUBSET ErrorKeys}

NoReport == [valid |-> FALSE, errors |-> {}, cleaned |-> {}]

\* bound_form.non_field_errors() is non-empty.
HasNonFieldErrors(r) == "__all__" \in r.errors

-----------------------------------------------------------------------------
(* FormResource._validate, one frame.                                       *)

\* Lines 112-113: the sentinel is written into the mapping passed in.
FrameData ==
    IF fake_data # "None"
    THEN Dict(Put(data.items, fake_data, "_fake_data"))
    ELSE data

\* Line 114.
FrameAllowed ==
    IF fake_data # "None"
    THEN allowed_extra_fields \cup {"_fake_data"}
    ELSE allowed_extra_fields

\* The caller's mapping after line 113: written when `data` is that object.
CallerAfterFrame ==
    IF fake_data # "None" /\ aliased THEN FrameData ELSE caller_data

\* A variant of line 123 that replaces only None: data = data or {} would
\* read the same for every input but keep an empty mapping's identity.
StillCallerUnlessNone(d) == ~d.none

\* Line 123: `data and data or {}` keeps the object passed in when it is
\* truthy and makes a new empty mapping otherwise.
StillCaller(d) == Truthy(d)

\* Line 123: data = data and data or {}.
Normalised(d) == IF StillCaller(d) THEN d ELSE Dict(<< >>)

\* Lines 126-131 without line 132: the reserved keys are not taken out.
unknown_fields_unreserved(seen_fields_set, form_fields_set, allowed_extra_fields_set) ==
    seen_fields_set \ (form_fields_set \cup allowed_extra_fields_set)

\* Lines 126-132.
unknown_fields(seen_fields_set, form_fields_set, allowed_extra_fields_set) ==
    (seen_fields_set \ (form_fields_set \cup allowed_extra_fields_set))
        \ {"csrfmiddlewaretoken", "_accept", "_method"}

\* Line 135.
Succeeds(r, unknown) ==
    r.valid /\ (allow_unknown_form_fields \/ unknown = {})

\* Lines 137-143: cleaned_data plus the extra fields seen on the input.
cleaned_data(r, d, allowed_extra_fields_set) ==
    [k \in r.cleaned \cup (allowed_extra_fields_set \cap DOMAIN d.items) |->
        IF k \in r.cleaned THEN "clean" ELSE d.items[k]]

\* Line 148.
AmbiguousEmpty(r, unknown) == r.errors = {} /\ unknown = {}

\* Line 152 without its test: revalidate whenever the errors are empty.
RetryAlways(fake) == TRUE

\* Line 152.
RetryAllowed(fake) == fake = "None"

\* Lines 164-173 without the test of line 168.
field_errors_unfiltered(r, unknown) ==
    [k \in r.errors \cup unknown |->
        IF k \in unknown THEN "This field does not exist." ELSE "schema"]

\* Lines 164-173.
field_errors(r, unknown) ==
    [k \in {e \in r.errors : ~StartsWithDunder(e)} \cup unknown |->
        IF k \in unknown THEN "This field does not exist." ELSE "schema"]

NoOutcome ==
    [kind |-> "none", value |-> NoneDict, status |-> 0, errors |-> "absent",
     has_field_errors |-> FALSE, field_errors |-> << >>]

Returned(d) == [NoOutcome EXCEPT !.kind = "returned", !.value = d]

\* Lines 146-179: raise ErrorResponse(400, detail).
Raised(errs, fe) ==
    [NoOutcome EXCEPT !.kind = "raised", !.status = 400, !.errors = errs,
                      !.has_field_errors = (DOMAIN fe # {}),
                      !.field_errors = fe]

Attempt(form, r, d, result) ==
    [form |-> form, fake |-> fake_data, data |-> d, allowed |-> FrameAllowed,
     report |-> r, result |-> result]

\* BaseResource / FormResource / ModelResource.validate_request: the call
\* enters _validate with fake_data=None and the class's allowed_extra_fields.
validate_request ==
    /\ pc = "idle"
    /\ \E d \in {NoneDict} \cup
             {Dict(f) : f \in UNION {[S -> {"x", "y"}] :
                 S \in {T \in SUBSET {"name", "extra", "prop", "_method"} :
                            Cardinality(T) <= MaxDataKeys}}} :
          /\ data0' = d
          /\ caller_data' = d
          /\ data' = d
    /\ aliased' = TRUE
    /\ allowed_extra_fields' =
          IF kind = "ModelResource" THEN _property_fields_set ELSE {}
    /\ allowed0' =
          IF kind = "ModelResource" THEN _property_fields_set ELSE {}
    /\ fake_data' = "None"
    /\ pc' = "validate"
    /\ UNCHANGED << configVars, resolveVars, log, bound_form_instance,
                    outcome >>

\* Lines 116-119: no form is configured, the data is returned as it is.
ValidateNoForm ==
    /\ pc = "validate"
    /\ Len(log) < MaxAttempts
    /\ get_bound_form("None") = "None"
    /\ caller_data' = CallerAfterFrame
    /\ log' = Append(log, Attempt("None", NoReport, FrameData, "return"))
    /\ outcome' = Returned(FrameData)
    /\ pc' = "returned"
    /\ UNCHANGED << configVars, resolveVars, data0, data, aliased,
                    allowed_extra_fields, allowed0, fake_data,
                    bound_form_instance >>

\* Lines 116-179 with a form: one bind, then return, retry or raise.
ValidateBound ==
    /\ pc = "validate"
    /\ Len(log) < MaxAttempts
    /\ get_bound_form("None") # "None"
    /\ LET form == get_bound_form("None")
           d == Normalised(FrameData)
           unknown == unknown_fields(Keys(d), FormFieldNames(form),
                                     FrameAllowed)
       IN  \E r \in Reports(form) :
             /\ caller_data' = CallerAfterFrame
             /\ bound_form_instance' =
                   [set |-> TRUE, form |-> form, attempt |-> Len(log) + 1]
             /\ IF Succeeds(r, unknown)
                THEN /\ outcome' = Returned(Dict(cleaned_data(r, d, FrameAllowed)))
                     /\ log' = Append(log, Attempt(form, r, d, "return"))
                     /\ pc' = "returned"
                     /\ UNCHANGED << data, aliased, allowed_extra_fields,
                                     fake_data >>
                ELSE IF AmbiguousEmpty(r, unknown) /\ RetryAllowed(fake_data)
                THEN /\ data' = d
                     /\ aliased' = (aliased /\ StillCaller(FrameData))
                     /\ allowed_extra_fields' = FrameAllowed
                     /\ fake_data' = "_fake_data"
                     /\ log' = Append(log, Attempt(form, r, d, "retry"))
                     /\ pc' = "validate"
                     /\ UNCHANGED outcome
                ELSE /\ outcome' =
                          IF AmbiguousEmpty(r, unknown)
                          THEN Raised("No content was supplied.", << >>)
                          ELSE Raised(IF HasNonFieldErrors(r)
                                      THEN "non_field_errors" ELSE "absent",
                                      field_errors(r, unknown))
                     /\ log' = Append(log, Attempt(form, r, d, "raise"))
                     /\ pc' = "raised"
                     /\ UNCHANGED << data, aliased, allowed_extra_fields,
                                     fake_data >>
    /\ UNCHANGED << configVars, resolveVars, data0, allowed0 >>

IdleCall ==
    /\ pc = "idle"
    /\ data0 = NoneDict
    /\ caller_data = NoneDict
    /\ data = NoneDict
    /\ aliased = FALSE
    /\ allowed_extra_fields = {}
    /\ allowed0 = {}
    /\ fake_data = "None"
    /\ log = << >>
    /\ bound_form_instance = [set |-> FALSE, form |-> "None", attempt |-> 0]
    /\ outcome = NoOutcome

IdleResolve ==
    /\ form_result = [done |-> FALSE, form |-> "None", bound |-> "None"]
    /\ fs_done = {}
    /\ fs_model = {}
    /\ fs_property = {}

NoMethodForms == [m \in {"post", "put"} |-> "absent"]

\* A resource and its view as constructed, before any request is validated.
Init ==
    /\ kind \in {"FormResource", "ModelResource"}
    /\ allow_unknown_form_fields \in BOOLEAN
    /\ view_form \in {"absent", "ViewForm"}
    /\ resource_form \in {"None", "ResourceForm"}
    /\ view_method_form = NoMethodForms
    /\ resource_method_form = NoMethodForms
    /\ method_arg = "None"
    /\ view_has_request = TRUE
    /\ view_method = "absent"
    /\ request_method = "POST"
    /\ model \in IF kind = "ModelResource" THEN {"None", "Model"} ELSE {"None"}
    /\ model_meta_fields = IF model = "Model" THEN {"id", "name"} ELSE {}
    /\ model_property_attrs = IF model = "Model" THEN {"prop", "_p"} ELSE {}
    /\ fields \in IF kind = "ModelResource"
                  THEN {NoneTuple, Tuple({}), Tuple({"prop"})}
                  ELSE {NoneTuple}
    /\ include \in IF kind = "ModelResource" THEN {{}, {"name"}} ELSE {{}}
    /\ exclude = IF kind = "ModelResource" THEN {"id", "pk"} ELSE {}
    /\ IdleCall
    /\ IdleResolve

Next == validate_request \/ ValidateNoForm \/ ValidateBound

Spec == Init /\ [][Next]_vars

-----------------------------------------------------------------------------
(* Form-class resolution on its own: every combination of the four slots.   *)

SlotValues(form) == {"absent", "None", form}

InitForm ==
    /\ kind \in {"FormResource", "ModelResource"}
    /\ allow_unknown_form_fields = FALSE
    /\ view_form \in SlotValues("ViewForm")
    /\ resource_form \in {"None", "ResourceForm"}
    /\ view_method_form \in [{"post", "put"} -> SlotValues("ViewMethodForm")]
    /\ resource_method_form \in
          [{"post", "put"} -> SlotValues("ResourceMethodForm")]
    /\ method_arg \in {"None", "POST", "PUT"}
    /\ view_has_request \in BOOLEAN
    /\ view_method \in {"absent", "PUT"}
    /\ request_method = "POST"
    /\ model \in IF kind = "ModelResource" THEN {"None", "Model"} ELSE {"None"}
    /\ model_meta_fields = IF model = "Model" THEN {"id", "name"} ELSE {}
    /\ model_property_attrs = IF model = "Model" THEN {"prop", "_p"} ELSE {}
    /\ fields = NoneTuple
    /\ include = {}
    /\ exclude = IF kind = "ModelResource" THEN {"id", "pk"} ELSE {}
    /\ IdleCall
    /\ IdleResolve

\* A caller (a renderer, or _validate) asks for the form of the request.
GetFormClass ==
    /\ ~form_result.done
    /\ form_result' = [done |-> TRUE, form |-> get_form_class(method_arg),
                       bound |-> get_bound_form(method_arg)]
    /\ UNCHANGED << configVars, callVars, fs_done, fs_model, fs_property >>

NextForm == GetFormClass

SpecForm == InitForm /\ [][NextForm]_vars

-----------------------------------------------------------------------------
(* Field-set resolution on its own: every whitelist, include and exclude.   *)

InitFields ==
    /\ kind = "ModelResource"
    /\ allow_unknown_form_fields = FALSE
    /\ view_form = "absent"
    /\ resource_form = "None"
    /\ view_method_form = NoMethodForms
    /\ resource_method_form = NoMethodForms
    /\ method_arg = "None"
    /\ view_has_request = TRUE
    /\ view_method = "absent"
    /\ request_method = "POST"
    /\ model = "Model"
    /\ model_meta_fields \in SUBSET {"a", "b", "c"}
    /\ model_property_attrs \in SUBSET {"a", "b", "c", "_p"}
    /\ fields \in {NoneTuple} \cup {Tuple(w) : w \in SUBSET {"b", "d"}}
    /\ include \in SUBSET {"a", "c"}
    /\ exclude \in SUBSET {"a", "b"}
    /\ IdleCall
    /\ IdleResolve

ReadModelFieldsSet ==
    /\ "model" \notin fs_done
    /\ fs_model' = _model_fields_set
    /\ fs_done' = fs_done \cup {"model"}
    /\ UNCHANGED << configVars, callVars, form_result, fs_property >>

ReadPropertyFieldsSet ==
    /\ "property" \notin fs_done
    /\ fs_property' = _property_fields_set
    /\ fs_done' = fs_done \cup {"property"}
    /\ UNCHANGED << configVars, callVars, form_result, fs_model >>

NextFields == ReadModelFieldsSet \/ ReadPropertyFieldsSet

SpecFields == InitFields /\ [][NextFields]_vars

-----------------------------------------------------------------------------
(* Properties of one validate_request call (specification Spec).            *)

Finished == pc \in {"returned", "raised"}

Last == log[Len(log)]

ReservedTechnicalKeys == {"csrfmiddlewaretoken", "_accept", "_method"}

\* The unknown keys of a bind attempt, as the specification words them.
UnknownOf(a) ==
    {k \in Keys(a.data) : /\ k \notin FormFieldNames(a.form)
                          /\ k \notin a.allowed
                          /\ k \notin ReservedTechnicalKeys}

\* The attempt failed to bind to anything the form could report on.
AmbiguousAttempt(a) ==
    a.form # "None" /\ ~a.report.valid /\ a.report.errors = {}
        /\ UnknownOf(a) = {}

\* C1: a bind attempt with a validator configured takes the success path
\* (and the call then returns cleaned data) if and only if the validator
\* reports valid and (allow_unknown_form_fields or no key is unknown), the
\* reserved technical keys never counting as unknown.
C1_SuccessIff ==
    \A i \in 1..Len(log) :
        log[i].form # "None" =>
            /\ (log[i].result = "return") <=>
                  (log[i].report.valid /\
                      (allow_unknown_form_fields \/ UnknownOf(log[i]) = {}))
            /\ log[i].result = "return" =>
                  (i = Len(log) /\ pc = "returned" /\ outcome.kind = "returned")

C1_Witness ==
    /\ pc = "returned"
    /\ Last.form = "ResourceForm"
    /\ ~allow_unknown_form_fields
    /\ Keys(Last.data) = {"name", "_method"}

\* C2: an attempt that fails and is not ambiguous-empty ends the call by
\* raising ErrorResponse(400) whose field_errors has exactly the schema's
\* error keys not starting with '__' plus every unknown key, each unknown
\* key mapped to 'This field does not exist.'; field_errors is left out of
\* the detail exactly when that key set is empty.
C2_FieldErrorKeys ==
    \A i \in 1..Len(log) :
        LET a == log[i]
            unknown == UnknownOf(a)
            failed == ~(a.report.valid /\
                          (allow_unknown_form_fields \/ unknown = {}))
            expected == {e \in a.report.errors : e \notin {"__all__", "__x"}}
                            \cup unknown
        IN  (a.form # "None" /\ failed /\
                ~(a.report.errors = {} /\ unknown = {})) =>
               /\ i = Len(log)
               /\ pc = "raised"
               /\ outcome.kind = "raised"
               /\ outcome.status = 400
               /\ DOMAIN outcome.field_errors = expected
               /\ outcome.has_field_errors <=> (expected # {})
               /\ \A k \in unknown :
                     outcome.field_errors[k] = "This field does not exist."
               /\ (a.report.valid => DOMAIN outcome.field_errors = unknown)

C2_Witness ==
    /\ pc = "raised"
    /\ Last.report.errors = {"name", "__all__"}
    /\ UnknownOf(Last) = {"extra"}
    /\ DOMAIN outcome.field_errors = {"name", "extra"}

\* C3: a call whose first attempt is ambiguous-empty never returns cleaned
\* data: it ends in ErrorResponse(400) carrying the errors the retry
\* surfaced or exactly the generic 'No content was supplied.'.
C3_NeverAccepted ==
    (Finished /\ Len(log) >= 1 /\ AmbiguousAttempt(log[1])) =>
        /\ outcome.kind = "raised"
        /\ outcome.status = 400
        /\ \/ outcome.has_field_errors
           \/ outcome.errors = "non_field_errors"
           \/ outcome.errors = "No content was supplied."

\* C4: a call makes at most two bind attempts and is over after the second;
\* only an attempt without the sentinel retries, and an ambiguous-empty
\* attempt that carries the sentinel ends with the generic message alone.
C4_AtMostTwoAttempts ==
    /\ Len(log) <= 2
    /\ Len(log) = 2 => Finished
    /\ \A i \in 1..Len(log) :
          /\ log[i].result = "retry" => log[i].fake = "None"
          /\ (log[i].fake # "None" /\ AmbiguousAttempt(log[i])) =>
                /\ i = Len(log)
                /\ pc = "raised"
                /\ outcome.errors = "No content was supplied."
                /\ ~outcome.has_field_errors

C4_Witness ==
    /\ Len(log) = 2
    /\ pc = "raised"
    /\ AmbiguousAttempt(log[2])
    /\ outcome.errors = "No content was supplied."

\* C5: the mapping validate_request returns with a validator configured has
\* exactly the keys of the schema's cleaned data plus the keys of
\* (allowed_extra_fields intersect keys(data)) of the call; a schema key has
\* the schema's value, an added key the caller's raw value.
C5_ReturnedKeys ==
    (pc = "returned" /\ Last.form # "None") =>
        /\ Keys(outcome.value) =
              Last.report.cleaned \cup (allowed0 \cap Keys(data0))
        /\ \A k \in Keys(outcome.value) :
              outcome.value.items[k] =
                  IF k \in Last.report.cleaned THEN "clean"
                  ELSE data0.items[k]

\* C9 as stated: after the call the caller's mapping is what it was and no
\* bound validator is left stored on the view.
C9_NoExternalChange ==
    Finished => (caller_data = data0 /\ ~bound_form_instance.set)

\* C9 as amended: after the call the resource is unchanged; the caller's
\* mapping is what it was, except that it has gained the sentinel key when
\* the retry ran on a non-empty mapping; and the view's bound_form_instance
\* is the bound validator of the last attempt when a validator is
\* configured, and is untouched otherwise.
C9_ExternalChange ==
    /\ [](Finished =>
            /\ caller_data =
                  IF Len(log) = 2 /\ Keys(data0) # {}
                  THEN Dict(Put(data0.items, "_fake_data", "_fake_data"))
                  ELSE data0
            /\ bound_form_instance =
                  IF Last.form # "None"
                  THEN [set |-> TRUE, form |-> Last.form,
                        attempt |-> Len(log)]
                  ELSE [set |-> FALSE, form |-> "None", attempt |-> 0])
    /\ [][UNCHANGED configVars]_vars

C9_Witness ==
    /\ pc = "raised"
    /\ Len(log) = 2
    /\ Keys(data0) = {"_method"}
    /\ Keys(caller_data) = {"_method", "_fake_data"}
    /\ bound_form_instance.attempt = 2

\* C10: ModelResource.validate_request never returns cleaned data for an
\* input that omits a field named in the `fields` class attribute.
C10_FieldsRequired ==
    (pc = "returned" /\ kind = "ModelResource" /\ ~fields.none) =>
        fields.val \subseteq Keys(data0)

-----------------------------------------------------------------------------
(* Properties of get_form_class (specification SpecForm).                   *)

\* The method whose per-method slots apply, "None" when there is none.
SlotMethod ==
    IF method_arg # "None" THEN Lower(method_arg)
    ELSE IF ~view_has_request THEN "None"
    ELSE IF view_method # "absent" THEN Lower(view_method)
    ELSE Lower(request_method)

\* The four slots in priority order, as sequences of slot values.
SlotsByPriority ==
    (IF SlotMethod = "None" THEN << >>
     ELSE << view_method_form[SlotMethod], resource_method_form[SlotMethod] >>)
    \o << view_form, resource_form >>

HoldsSchema(slot) == slot \notin {"absent", "None"}

\* C6: get_form_class returns the first slot, in the order view method form,
\* resource method form, view form, resource form, that holds a schema: a
\* slot holding none never hides a lower one, and the result is absent only
\* when no slot holds a schema.
C6_FirstPresentWins ==
    form_result.done =>
        LET present == {i \in 1..Len(SlotsByPriority) :
                            HoldsSchema(SlotsByPriority[i])}
        IN  IF present = {}
            THEN ~HoldsSchema(form_result.form)
            ELSE form_result.form =
                    SlotsByPriority[CHOOSE i \in present :
                                        \A j \in present : i <= j]

-----------------------------------------------------------------------------
(* Properties of the field-set properties (specification SpecFields).       *)

\* The names discovery finds for _property_fields_set.
DiscoveredProperties == model_property_attrs \ {"_p"}

\* C7 as stated: without a whitelist both properties are
\* (discovered union include) minus exclude.
C7_BothUnionInclude ==
    fields.none =>
        /\ "model" \in fs_done =>
              fs_model = (model_meta_fields \cup include) \ exclude
        /\ "property" \in fs_done =>
              fs_property = (DiscoveredProperties \cup include) \ exclude

\* C7 as amended: without a whitelist (fields is None)
\* _property_fields_set is (discovered union include) minus exclude, and
\* _model_fields_set is discovered minus exclude: include does not enter it.
C7_IncludeOnlyForProperties ==
    fields.none =>
        /\ "model" \in fs_done => fs_model = model_meta_fields \ exclude
        /\ "property" \in fs_done =>
              fs_property = (DiscoveredProperties \cup include) \ exclude

C7_Witness ==
    /\ fields.none
    /\ fs_done = {"model", "property"}
    /\ model_meta_fields = {"a", "b"}
    /\ model_property_attrs = {"a", "b", "_p"}
    /\ include = {"c"}
    /\ exclude = {"a"}
    /\ fs_model = {"b"}
    /\ fs_property = {"b", "c"}

\* C8: with a whitelist `fields` present, the empty one included, both
\* properties are exactly fields intersect discovered.
C8_WhitelistNarrows ==
    ~fields.none =>
        /\ "model" \in fs_done => fs_model = fields.val \cap model_meta_fields
        /\ "property" \in fs_done =>
              fs_property = fields.val \cap DiscoveredProperties

=============================================================================
